---- MODULE Spec2Model ----
(***************************************************************************)
(* A model of the staged plugin build of particle_sim: the scripts under   *)
(* build_scripts/ (A: header generation, B: shared compile, C: per-plugin  *)
(* compile, D: plugin link, E: main program) and the older build.py.       *)
(*                                                                         *)
(* The state is the part of the file system the scripts read and write    *)
(* (the plugin directories and the stage output directories), the script  *)
(* being run with its position and locals, the subprocesses it started,   *)
(* what it printed as errors, and its exit status.  One script runs at a  *)
(* time; each action is one step of the running script.                   *)
(***************************************************************************)
EXTENDS Integers, Sequences, FiniteSets, TLC

VARIABLES
    plugins_src,    \* the directories found in plugins_src/ (the known plugins)
    dirA,           \* build/A_generatePluginHeaders
    dirB,           \* build/B_compileNonPluginSourcesForPlugins
    dirC,           \* build/C_compilePluginSources
    dirD,           \* build/D_linkPlugins_dependsOn_BC
    dirE,           \* build/E_compileMainProgram_dependsOn_A
    dirBuild,       \* what build.py puts under build/ itself
    script,         \* the script running, or the last one run ("none" at first)
    pc,             \* position in the running script; "idle" when none runs
    argv,           \* sys.argv[1:] of the current (or last) run
    lib_names,      \* the script's lib_names
    lib_versions,   \* D's lib_versions
    i,              \* index of the plugin loop
    src_filepaths,  \* the source list read from the current info.toml
    j,              \* index of the source-file loop
    procs,          \* subprocesses started by the current (or last) script run
    a_compilation_failed, \* the flag of the join loop (B, E, build.py)
    plugin_infos,   \* A's plugin_infos
    nocompile_list, \* the marker scan's nocompile_list (E, build.py)
    scanned,        \* history: per file the marker scan has read, its marker count
    exit_status,    \* "none" while no run has ended, else "zero" or "nonzero"
    report,         \* the error lines the current (or last) run printed, in order
    before          \* history: the link directory and exit status left by the run before

vars == << plugins_src, dirA, dirB, dirC, dirD, dirE, dirBuild, script, pc, argv, lib_names,
           lib_versions, i, src_filepaths, j, procs, a_compilation_failed, plugin_infos,
           nocompile_list, scanned, exit_status, report, before >>

\* What the scripts other than A, and other than E and build.py, leave alone.
genVars == << dirA, plugin_infos >>
mainVars == << dirE, dirBuild, nocompile_list, scanned >>

----------------------------------------------------------------------------
(* Bounds and universes *)

\* Highest version number a link request passes.
MaxVersion == 1
\* Most plugins one compile or link request names.
MaxArgs == 2
\* Most entries of one source-file list of a descriptor.
MaxSrc == 2

\* Every directory name plugins_src/ may hold, in ascending code-point order
\* (the order Python's list.sort gives strings).
NameOrder == << "audio", "fluid", "render" >>
AllNames == { NameOrder[k] : k \in 1..Len(NameOrder) }

\* Paths are sequences of tokens; "/" and "_" are tokens of their own.
PluginSrcFiles == { << "a.cpp" >>, << "b.cpp" >> }
SharedSrcFiles == { << "libs", "/", "loguru.cpp" >>, << "src", "/", "util.cpp" >> }

Versions == 0..MaxVersion
\* What int(argv[k]) may yield for the version arguments tried: one negative too.
VersionArgs == (0 - 1)..MaxVersion

SeqsUpTo(S, n) == UNION { [1..k -> S] : k \in 0..n }

----------------------------------------------------------------------------
(* common.py *)

Rank(name) == CHOOSE k \in 1..Len(NameOrder) : NameOrder[k] = name

RECURSIVE Insert(_, _)
Insert(sorted, x) ==
    IF sorted = << >> THEN << x >>
    ELSE IF Rank(x) < Rank(Head(sorted)) THEN << x >> \o sorted
    ELSE << Head(sorted) >> \o Insert(Tail(sorted), x)

RECURSIVE SortNames(_)
SortNames(s) == IF s = << >> THEN << >> ELSE Insert(SortNames(Tail(s)), Head(s))

\* The orders os.listdir may return the plugin directories in.
Listings == { s \in [1..Cardinality(plugins_src) -> plugins_src] :
                 \A a, b \in DOMAIN s : a /= b => s[a] /= s[b] }

getLibNamesUnsorted(listing) == listing
\* getLibNames: the directories of plugins_src/, sorted.
getLibNames(listing) == SortNames(listing)

\* common.isReleaseBuild is called by D (line 20) and E (line 12) but common.py
\* as given does not define it.  It is taken to be what build.py lines 14-16
\* compute: a boolean read from the environment, with no effect on any file.
isReleaseBuild(environ_str_release) == environ_str_release = "1"
ReleaseEnv == { "unset", "0", "1" }

----------------------------------------------------------------------------
(* Helpers shared by the stage scripts *)

InSeq(x, s) == \E k \in DOMAIN s : s[k] = x
Range(s) == { s[k] : k \in DOMAIN s }

\* One line of error output: what it says (kind) and what it names.
Msg(kind, name, version) ==
    [ kind |-> kind, name |-> name, version |-> version, path |-> << >>, at |-> << >> ]
FileMsg(kind, path) ==
    [ kind |-> kind, name |-> "", version |-> 0, path |-> path, at |-> << >> ]
LocMsg(kind, path, line, col) ==
    [ kind |-> kind, name |-> "", version |-> 0, path |-> path, at |-> << line, col >> ]

\* src_filepath.replace('/', '_') + '.o'
ObjectFilename(path) ==
    [ k \in DOMAIN path |-> IF path[k] = "/" THEN "_" ELSE path[k] ] \o << ".o" >>

\* The script ends: sys.exit(message), an uncaught exception, or falling off the end.
Exit(code, lines) ==
    /\ pc' = "idle"
    /\ exit_status' = code
    /\ report' = report \o lines

NoDir == [ exists |-> FALSE, files |-> {} ]
EmptyDir == [ exists |-> TRUE, files |-> {} ]
\* The per-plugin subdirectories of a stage directory: none made yet.
NoSubdirs == [ n \in AllNames |-> NoDir ]
NoArgv == [ names |-> << >>, versions |-> << >> ]
\* A header file: absent, or written in part (open, not yet closed), or complete.
NoFile == [ state |-> "absent", content |-> << >> ]
\* The directory of generated headers before the first generation run.
NoHeaders == [ exists |-> FALSE, plugin |-> [ n \in AllNames |-> NoFile ],
               plugin_infos_hpp |-> NoFile, plugin_ids_hpp |-> NoFile ]

\* Line 1 of every script (#!/bin/python3): a new process, with nothing of the last
\* run left but the files.  A run is launched only when no script runs and no
\* subprocess of an earlier run is still running.
Launch ==
    /\ pc = "idle"
    /\ \A k \in DOMAIN procs : procs[k].state /= "running"
    /\ pc' = "launched"
    /\ argv' = NoArgv
    /\ lib_names' = << >>
    /\ lib_versions' = << >>
    /\ i' = 1
    /\ src_filepaths' = << >>
    /\ j' = 0
    /\ procs' = << >>
    /\ a_compilation_failed' = FALSE
    /\ plugin_infos' = << >>
    /\ nocompile_list' = << >>
    /\ scanned' = << >>
    /\ exit_status' = "none"
    /\ report' = << >>
    /\ UNCHANGED << plugins_src, dirA, dirB, dirC, dirD, dirE, dirBuild, script >>

CanStart == pc = "launched"

Proc(tool, target, state) == [ tool |-> tool, target |-> target, state |-> state ]


----------------------------------------------------------------------------
(* D_linkPlugins_dependsOn_BC.py *)

\* The argument lists tried: names at the even places of sys.argv[1:], integers at
\* the odd places; the last name may lack its version (an odd-length list).
ArgvD == { a \in [ names : SeqsUpTo(AllNames, MaxArgs),
                   versions : SeqsUpTo(VersionArgs, MaxArgs) ] :
             \/ Len(a.versions) = Len(a.names)
             \/ Len(a.versions) + 1 = Len(a.names) }

\* Lines 12-17: the whole stage directory is removed and made anew.
D_Cleanup(dir, names) == EmptyDir

\* As NoPluginLines below, stopping at the first name that is no plugin.
RECURSIVE NoPluginLinesFirstOnly(_, _)
NoPluginLinesFirstOnly(names, all_libs) ==
    IF names = << >> THEN << >>
    ELSE IF InSeq(Head(names), all_libs) THEN NoPluginLinesFirstOnly(Tail(names), all_libs)
    ELSE << Msg("no_plugin", Head(names), 0) >>

\* Lines 48-55 (and C's 26-34): one line per requested name that is no plugin.
RECURSIVE NoPluginLines(_, _)
NoPluginLines(names, all_libs) ==
    IF names = << >> THEN << >>
    ELSE (IF InSeq(Head(names), all_libs) THEN << >>
          ELSE << Msg("no_plugin", Head(names), 0) >>)
         \o NoPluginLines(Tail(names), all_libs)

\* Lines 39-46: the pairs read before an assert(version >= 0) fails, if one does.
RECURSIVE ParsedPairs(_)
ParsedPairs(versions) ==
    IF versions = << >> \/ Head(versions) < 0 THEN 0
    ELSE 1 + ParsedPairs(Tail(versions))

\* As DefaultVersions below, with 1 for 0.
DefaultVersionsOne(names) == [ k \in DOMAIN names |-> 1 ]
\* Line 29: lib_versions = [0] * len(lib_names)
DefaultVersions(names) == [ k \in DOMAIN names |-> 0 ]

D_Start ==
    \E args \in ArgvD, all_libs \in { getLibNames(listing) : listing \in Listings } :
        /\ CanStart
        /\ script' = "D"
        /\ argv' = args
        /\ dirD' = D_Cleanup(dirD, args.names)
        /\ \E release \in ReleaseEnv : isReleaseBuild(release) \in BOOLEAN
        /\ procs' = << >>
        /\ i' = 1
        /\ UNCHANGED << genVars, mainVars, plugins_src, dirB, dirC, src_filepaths, j, a_compilation_failed >>
        /\ LET argc == Len(args.names) + Len(args.versions)
               n == ParsedPairs(args.versions)
           IN  IF argc = 0
               THEN /\ lib_names' = all_libs
                    /\ lib_versions' = DefaultVersions(all_libs)
                    /\ IF all_libs = << >>
                       THEN /\ pc' = "idle" /\ exit_status' = "zero" /\ report' = << >>
                       ELSE /\ pc' = "D_link" /\ report' = << >> /\ UNCHANGED exit_status
               ELSE IF argc % 2 /= 0
               THEN \* assert(len(args) % 2 == 0)
                    /\ UNCHANGED << lib_names, lib_versions >>
                    /\ pc' = "idle" /\ exit_status' = "nonzero"
                    /\ report' = << Msg("AssertionError", "", 0) >>
               ELSE IF n < Len(args.versions)
               THEN \* assert(version >= 0)
                    /\ lib_names' = SubSeq(args.names, 1, n)
                    /\ lib_versions' = SubSeq(args.versions, 1, n)
                    /\ pc' = "idle" /\ exit_status' = "nonzero"
                    /\ report' = << Msg("AssertionError", "", 0) >>
               ELSE /\ lib_names' = args.names
                    /\ lib_versions' = args.versions
                    /\ IF NoPluginLines(args.names, all_libs) /= << >>
                       THEN /\ pc' = "idle" /\ exit_status' = "nonzero"
                            /\ report' = NoPluginLines(args.names, all_libs)
                                         \o << Msg("not_all_exist", "", 0) >>
                       ELSE /\ pc' = "D_link" /\ report' = << >> /\ UNCHANGED exit_status

\* Lines 58-87, one iteration: gather the objects, run the linker, check its status.
D_Link ==
    /\ pc = "D_link"
    /\ LET lib_name == lib_names[i]
           lib_version == lib_versions[i]
       IN  IF ~ dirC.exists \/ ~ dirC.files[lib_name].exists \/ ~ dirB.exists
           THEN \* os.listdir raises FileNotFoundError
                /\ Exit("nonzero", << Msg("FileNotFoundError", lib_name, lib_version) >>)
                /\ UNCHANGED << dirD, procs, i >>
           ELSE \E returncode \in { 0, 1 } :
                /\ procs' = Append(procs, Proc("link", << lib_name, lib_version >>,
                                               IF returncode = 0 THEN "exit0" ELSE "exit1"))
                /\ IF returncode /= 0
                   THEN /\ Exit("nonzero", << Msg("link_failed", lib_name, lib_version) >>)
                        /\ UNCHANGED << dirD, i >>
                   ELSE /\ dirD' = [ dirD EXCEPT !.files = @ \cup { << lib_name, lib_version >> } ]
                        /\ IF i = Len(lib_names)
                           THEN Exit("zero", << >>) /\ UNCHANGED i
                           ELSE /\ i' = i + 1
                                /\ UNCHANGED << pc, exit_status, report >>
    /\ UNCHANGED << genVars, mainVars, plugins_src, dirB, dirC, script, argv, lib_names, lib_versions,
                    src_filepaths, j, a_compilation_failed >>

----------------------------------------------------------------------------
(* C_compilePluginSources.py *)

ArgvC == [ names : SeqsUpTo(AllNames, MaxArgs), versions : { << >> } ]

\* What info.toml may hold under plugin_source_files; the key may be absent.
TomlPluginSources == [ has_key : BOOLEAN, value : SeqsUpTo(PluginSrcFiles, MaxSrc) ]

\* plugins_src/<lib_name>/<src_filepath>
PluginSrcPath(lib_name, src_filepath) ==
    << "plugins", "_", "src", "/", lib_name, "/" >> \o src_filepath

\* The loops of lines 37-82 move on: next file, next plugin, or the end of the script.
C_Advance(files, jj) ==
    IF jj < Len(files)
    THEN /\ j' = jj + 1 /\ src_filepaths' = files /\ pc' = "C_file"
         /\ UNCHANGED << i, exit_status, report >>
    ELSE IF i < Len(lib_names)
    THEN /\ i' = i + 1 /\ pc' = "C_lib" /\ src_filepaths' = files /\ j' = jj
         /\ UNCHANGED << exit_status, report >>
    ELSE /\ Exit("zero", << >>) /\ src_filepaths' = files /\ j' = jj /\ UNCHANGED i

C_Start ==
    \E args \in ArgvC, all_libs \in { getLibNames(listing) : listing \in Listings } :
        /\ CanStart
        /\ script' = "C"
        /\ argv' = args
        /\ dirC' = [ exists |-> TRUE, files |-> NoSubdirs ]
        /\ procs' = << >>
        /\ i' = 1
        /\ UNCHANGED << genVars, mainVars, plugins_src, dirB, dirD, lib_versions, src_filepaths, j,
                        a_compilation_failed >>
        /\ LET names == IF args.names = << >> THEN all_libs ELSE args.names
           IN  /\ lib_names' = names
               /\ IF NoPluginLines(names, all_libs) /= << >>
                  THEN /\ pc' = "idle" /\ exit_status' = "nonzero"
                       /\ report' = NoPluginLines(names, all_libs)
                                    \o << Msg("not_all_exist", "", 0) >>
                  ELSE IF names = << >>
                  THEN /\ pc' = "idle" /\ exit_status' = "zero" /\ report' = << >>
                  ELSE /\ pc' = "C_lib" /\ report' = << >> /\ UNCHANGED exit_status

\* Lines 37-50: make the plugin's object directory and read its source list.
C_Lib ==
    /\ pc = "C_lib"
    /\ UNCHANGED << genVars, mainVars, plugins_src, dirB, dirD, script, argv, lib_names, lib_versions,
                    procs, a_compilation_failed >>
    /\ LET lib_name == lib_names[i]
       IN  IF dirC.files[lib_name].exists
           THEN \* os.mkdir raises FileExistsError: the name was given twice
                /\ Exit("nonzero", << Msg("FileExistsError", lib_name, 0) >>)
                /\ UNCHANGED << dirC, i, src_filepaths, j >>
           ELSE /\ dirC' = [ dirC EXCEPT !.files[lib_name] = EmptyDir ]
                /\ \E toml \in TomlPluginSources :
                     IF ~ toml.has_key
                     THEN \* toml["plugin_source_files"] raises KeyError
                          /\ Exit("nonzero", << Msg("KeyError", lib_name, 0) >>)
                          /\ UNCHANGED << i, src_filepaths, j >>
                     ELSE C_Advance(toml.value, 0)

\* Lines 52-82, one iteration: check the file is there, compile it, check the status.
C_File ==
    /\ pc = "C_file"
    /\ UNCHANGED << genVars, mainVars, plugins_src, dirB, dirD, script, argv, lib_names, lib_versions,
                    a_compilation_failed >>
    /\ LET lib_name == lib_names[i]
           src_filepath == PluginSrcPath(lib_name, src_filepaths[j])
       IN  \E isfile \in BOOLEAN, returncode \in { 0, 1 } :
             IF ~ isfile
             THEN /\ Exit("nonzero", << FileMsg("no_such_file", src_filepath) >>)
                  /\ UNCHANGED << dirC, procs, i, src_filepaths, j >>
             ELSE /\ procs' = Append(procs, Proc("compile", src_filepath,
                                                 IF returncode = 0 THEN "exit0" ELSE "exit1"))
                  /\ IF returncode /= 0
                     THEN /\ Exit("nonzero", << FileMsg("compile_failed", src_filepath) >>)
                          /\ UNCHANGED << dirC, i, src_filepaths, j >>
                     ELSE /\ dirC' = [ dirC EXCEPT !.files[lib_name].files =
                                           @ \cup { ObjectFilename(src_filepath) } ]
                          /\ C_Advance(src_filepaths, j)

----------------------------------------------------------------------------
(* B_compileNonPluginSourcesForPlugins.py *)

\* What info.toml may hold under other_source_files; the key may be absent.
TomlOtherSources == [ has_key : BOOLEAN, value : SeqsUpTo(SharedSrcFiles, MaxSrc) ]

\* The loops of lines 19-60 move on: next file, next plugin, or the join loop.
B_Advance(files, jj) ==
    IF jj < Len(files)
    THEN /\ j' = jj + 1 /\ src_filepaths' = files /\ pc' = "B_file" /\ UNCHANGED i
    ELSE IF i < Len(lib_names)
    THEN /\ i' = i + 1 /\ pc' = "B_lib" /\ src_filepaths' = files /\ j' = jj
    ELSE /\ pc' = "B_join" /\ j' = 1 /\ src_filepaths' = files /\ UNCHANGED i

\* Lines 12-19: the stage directory is removed and made anew; every plugin is taken.
B_Start ==
    \E all_libs \in { getLibNames(listing) : listing \in Listings } :
        /\ CanStart
        /\ script' = "B"
        /\ dirB' = EmptyDir
        /\ lib_names' = all_libs
        /\ i' = 1
        /\ IF all_libs = << >> THEN pc' = "B_join" /\ j' = 1 ELSE pc' = "B_lib" /\ j' = 0
        /\ UNCHANGED << genVars, mainVars, plugins_src, dirC, dirD, argv, lib_versions, src_filepaths,
                        procs, a_compilation_failed, exit_status, report >>

\* Lines 20-32: read the plugin's list of shared sources.
B_Lib ==
    /\ pc = "B_lib"
    /\ UNCHANGED << genVars, mainVars, plugins_src, dirB, dirC, dirD, script, argv, lib_names, lib_versions,
                    procs, a_compilation_failed >>
    /\ \E toml \in TomlOtherSources :
         IF ~ toml.has_key
         THEN \* toml["other_source_files"] raises KeyError
              /\ Exit("nonzero", << Msg("KeyError", lib_names[i], 0) >>)
              /\ UNCHANGED << i, src_filepaths, j >>
         ELSE B_Advance(toml.value, 0) /\ UNCHANGED << exit_status, report >>

\* Lines 34-60, one iteration: check the file is there and start its compiler.
B_File ==
    /\ pc = "B_file"
    /\ UNCHANGED << genVars, mainVars, plugins_src, dirB, dirC, dirD, script, argv, lib_names, lib_versions,
                    a_compilation_failed >>
    /\ LET src_filepath == src_filepaths[j]
       IN  \E isfile \in BOOLEAN :
             IF ~ isfile
             THEN /\ Exit("nonzero", << FileMsg("no_such_file", src_filepath) >>)
                  /\ UNCHANGED << procs, i, src_filepaths, j >>
             ELSE /\ procs' = Append(procs, Proc("compile", src_filepath, "running"))
                  /\ B_Advance(src_filepaths, j)
                  /\ UNCHANGED << exit_status, report >>

\* A compiler started by Popen ends, whether or not the script still runs; on
\* success its object file is in the stage directory.
CompilerExit ==
    \E k \in DOMAIN procs, returncode \in { 0, 1 } :
        /\ procs[k].state = "running"
        /\ procs' = [ procs EXCEPT ![k].state = IF returncode = 0 THEN "exit0" ELSE "exit1" ]
        /\ dirB' = IF returncode = 0 /\ dirB.exists
                   THEN [ dirB EXCEPT !.files = @ \cup { ObjectFilename(procs[k].target) } ]
                   ELSE dirB
        /\ UNCHANGED << genVars, mainVars, plugins_src, dirC, dirD, script, pc, argv, lib_names, lib_versions,
                        i, src_filepaths, j, a_compilation_failed, exit_status, report >>

\* Lines 62-65, one iteration: p.communicate() returns once the compiler has ended.
B_Join ==
    /\ pc = "B_join"
    /\ j <= Len(procs)
    /\ procs[j].state /= "running"
    /\ a_compilation_failed' = (a_compilation_failed \/ procs[j].state = "exit1")
    /\ j' = j + 1
    /\ UNCHANGED << genVars, mainVars, plugins_src, dirB, dirC, dirD, script, pc, argv, lib_names,
                    lib_versions, i, src_filepaths, procs, exit_status, report >>

\* As B_End below, with the flag of the join loop not looked at.
B_EndIgnoresFailure ==
    /\ pc = "B_join"
    /\ j > Len(procs)
    /\ Exit("zero", << >>)
    /\ UNCHANGED << genVars, mainVars, plugins_src, dirB, dirC, dirD, script, argv, lib_names, lib_versions,
                    i, src_filepaths, j, procs, a_compilation_failed >>

\* Lines 66-68: after the join loop, one line that a compilation failed, or success.
B_End ==
    /\ pc = "B_join"
    /\ j > Len(procs)
    /\ IF a_compilation_failed
       THEN Exit("nonzero", << Msg("a_compilation_failed", "", 0) >>)
       ELSE Exit("zero", << >>)
    /\ UNCHANGED << genVars, mainVars, plugins_src, dirB, dirC, dirD, script, argv, lib_names, lib_versions,
                    i, src_filepaths, j, procs, a_compilation_failed >>

----------------------------------------------------------------------------
(* A_generatePluginHeaders.py *)

\* Most procedures one descriptor declares.
MaxProcs == 2
ProcNames == { "init", "step" }
\* What may be wrong with one procedure record: a missing key of the record, or a
\* missing "type" in one of its args.
Faults == { "return", "name", "args", "type" }

\* The descriptors read: the procedures key may be absent; procedure number bad
\* (none when 0) has the fault given.
Descriptors ==
    { d \in [ has_procedures : BOOLEAN, names : SeqsUpTo(ProcNames, MaxProcs),
              bad : 0..MaxProcs, fault : Faults ] :
        /\ d.bad <= Len(d.names)
        /\ d.bad = 0 => d.fault = "return"
        /\ ~ d.has_procedures => d.names = << >> }

\* pascalcase (lines 12-24) and str.upper on the names of NameOrder.
pascalcase(name) ==
    CASE name = "audio" -> "Audio" [] name = "fluid" -> "Fluid" [] name = "render" -> "Render"
upper(name) ==
    CASE name = "audio" -> "AUDIO" [] name = "fluid" -> "FLUID" [] name = "render" -> "RENDER"

\* Lines 131-138: the name of the struct of function pointers.
ProcsStructName(lib_name) == << pascalcase(lib_name), "Procs" >>

\* Lines 76-77: the files under the plugin's source directory.
WatchFilepaths(lib_name) ==
    << PluginSrcPath(lib_name, << "info.toml" >>) >>

\* Lines 106-146: what the header holds of the procedures: the FN_ aliases written
\* by the first loop and the fields of the struct written by the second.
HeaderContent(names) ==
    [ aliases |-> names, struct_name |-> << >>, fields |-> << >> ]
HeaderComplete(lib_name, names) ==
    [ state |-> "complete",
      content |-> [ aliases |-> names, struct_name |-> ProcsStructName(lib_name),
                    fields |-> names ] ]

\* Lines 27-33: the plugins are listed and the directory of headers is made anew.
A_Start ==
    \E listing \in Listings :
        /\ CanStart
        /\ script' = "A"
        /\ lib_names' = getLibNames(listing)
        /\ dirA' = [ NoHeaders EXCEPT !.exists = TRUE ]
        /\ plugin_infos' = << >>
        /\ i' = 1
        /\ pc' = IF listing = << >> THEN "A_infos" ELSE "A_lib"
        /\ UNCHANGED << mainVars, plugins_src, dirB, dirC, dirD, argv, lib_versions,
                        src_filepaths, j, procs, a_compilation_failed, exit_status, report >>

\* Lines 61-173, one iteration: read the descriptor and write the plugin's header.
A_Lib ==
    /\ pc = "A_lib"
    /\ UNCHANGED << mainVars, plugins_src, dirB, dirC, dirD, script, argv, lib_names,
                    lib_versions, src_filepaths, j, procs, a_compilation_failed >>
    /\ LET lib_name == lib_names[i]
       IN  \E toml \in Descriptors :
             IF ~ toml.has_procedures
             THEN \* toml["procedures"] raises KeyError; the header is open
                  /\ dirA' = [ dirA EXCEPT !.plugin[lib_name] =
                                 [ state |-> "partial", content |-> HeaderContent(<< >>) ] ]
                  /\ Exit("nonzero", << Msg("KeyError", lib_name, 0) >>)
                  /\ UNCHANGED << plugin_infos, i >>
             ELSE IF toml.bad /= 0
             THEN \* proc["return"], proc["name"], proc["args"] or arg["type"] raises
                  \* KeyError; the aliases of the procedures before it are written
                  /\ dirA' = [ dirA EXCEPT !.plugin[lib_name] =
                                 [ state |-> "partial",
                                   content |-> HeaderContent(SubSeq(toml.names, 1, toml.bad - 1)) ] ]
                  /\ Exit("nonzero", << Msg("KeyError", lib_name, 0) >>)
                  /\ UNCHANGED << plugin_infos, i >>
             ELSE /\ dirA' = [ dirA EXCEPT !.plugin[lib_name] =
                                 HeaderComplete(lib_name, toml.names) ]
                  /\ plugin_infos' = Append(plugin_infos,
                        [ lib_name |-> lib_name,
                          proc_names |-> toml.names,
                          procs_struct_name |-> ProcsStructName(lib_name),
                          watch_filepaths |-> WatchFilepaths(lib_name) ])
                  /\ IF i < Len(lib_names)
                     THEN i' = i + 1 /\ pc' = "A_lib"
                     ELSE i' = i /\ pc' = "A_infos"
                  /\ UNCHANGED << exit_status, report >>

\* As ProcTable below, with the struct of the offsets taken from lib_name too.
ProcTableLeftoverStruct(plugin_info, lib_name) ==
    [ count_name |-> upper(lib_name),
      count_value |-> Len(plugin_info.proc_names),
      infos_name |-> upper(lib_name),
      infos_size |-> upper(plugin_info.lib_name),
      entries |-> [ k \in DOMAIN plugin_info.proc_names |->
                      [ proc_name |-> plugin_info.proc_names[k],
                        struct |-> << lib_name, ProcsStructName(lib_name) >>,
                        field |-> plugin_info.proc_names[k] ] ] ]

\* Lines 234-248: PROC_COUNT_<X> and PROC_INFOS_<X>.  The name X is taken from
\* lib_name, the variable the loop of line 61 left; the array size from the plugin.
ProcTable(plugin_info, lib_name) ==
    [ count_name |-> upper(lib_name),
      count_value |-> Len(plugin_info.proc_names),
      infos_name |-> upper(lib_name),
      infos_size |-> upper(plugin_info.lib_name),
      entries |-> [ k \in DOMAIN plugin_info.proc_names |->
                      [ proc_name |-> plugin_info.proc_names[k],
                        struct |-> << plugin_info.lib_name, plugin_info.procs_struct_name >>,
                        field |-> plugin_info.proc_names[k] ] ] ]

\* Lines 259-270: WATCH_FILEPATH_COUNT_<X> and WATCH_FILEPATHS_<X>.
WatchTable(plugin_info, lib_name) ==
    [ count_name |-> upper(lib_name),
      count_value |-> Len(plugin_info.watch_filepaths),
      paths_name |-> upper(lib_name),
      paths_size |-> upper(plugin_info.lib_name),
      paths |-> plugin_info.watch_filepaths ]

\* Lines 281-295: one entry of PLUGIN_RELOAD_INFOS.
ReloadInfo(plugin_info, lib_name) ==
    [ shared_object_path |-> plugin_info.lib_name,
      proc_count |-> upper(plugin_info.lib_name),
      p_proc_infos |-> upper(plugin_info.lib_name),
      name |-> lib_name,
      watch_filepath_count |-> upper(lib_name),
      p_watch_filepaths |-> upper(lib_name) ]

\* Lines 176-319: plugin_infos.hpp.
A_Infos ==
    /\ pc = "A_infos"
    /\ LET lib_name == IF lib_names = << >> THEN "" ELSE lib_names[Len(lib_names)]
           each(table(_, _)) == [ k \in DOMAIN plugin_infos |-> table(plugin_infos[k], lib_name) ]
       IN  dirA' = [ dirA EXCEPT !.plugin_infos_hpp =
                       [ state |-> "complete",
                         content |-> [ proc_tables |-> each(ProcTable),
                                       watch_tables |-> each(WatchTable),
                                       reload_infos |-> each(ReloadInfo) ] ] ]
    /\ pc' = "A_ids"
    /\ UNCHANGED << mainVars, plugins_src, dirB, dirC, dirD, script, argv, lib_names,
                    lib_versions, i, src_filepaths, j, procs, a_compilation_failed,
                    plugin_infos, exit_status, report >>

\* Lines 335-339: the enumerators, one per plugin_info, numbered by enumerate.
PluginIdEntries(infos) ==
    [ k \in DOMAIN infos |-> [ lib_name |-> infos[k].lib_name,
                               enumerator |-> pascalcase(infos[k].lib_name),
                               value |-> k - 1 ] ]

\* PluginID_COUNT is written without a value: one more than the enumerator
\* before it, or 0 when it is the first.
PluginIdCount(entries) ==
    IF entries = << >> THEN 0 ELSE entries[Len(entries)].value + 1

\* Lines 322-349: plugin_ids.hpp; then the script ends.
A_Ids ==
    /\ pc = "A_ids"
    /\ dirA' = [ dirA EXCEPT !.plugin_ids_hpp =
                   [ state |-> "complete",
                     content |-> [ entries |-> PluginIdEntries(plugin_infos),
                                   count |-> PluginIdCount(PluginIdEntries(plugin_infos)) ] ] ]
    /\ Exit("zero", << >>)
    /\ UNCHANGED << mainVars, plugins_src, dirB, dirC, dirD, script, argv, lib_names,
                    lib_versions, i, src_filepaths, j, procs, a_compilation_failed,
                    plugin_infos >>

----------------------------------------------------------------------------
(* E_compileMainProgram_dependsOn_A.py and build.py *)

\* Most lines of one scanned file, and most tokens of one line.
MaxLines == 2
MaxCols == 2

\* The files of src/.
SrcTree == { << "main.cpp" >>, << "sim.comp" >> }
SrcListings == { s \in [1..Cardinality(SrcTree) -> SrcTree] :
                    \A a, b \in DOMAIN s : a /= b => s[a] /= s[b] }
IsShader(path) == path = << "sim.comp" >>
LibSources == << << "libs", "/", "loguru", "/", "loguru.cpp" >> >>

\* A line is a sequence of tokens: the marker, or one other character.
Marker == "@nocompile"
LineTokens == { Marker, "x" }
FileContents == SeqsUpTo(SeqsUpTo(LineTokens, MaxCols), MaxLines)

\* str.find: the offset of the first occurrence, or -1.
RECURSIVE Find(_, _)
Find(line_contents, from) ==
    IF from > Len(line_contents) THEN 0 - 1
    ELSE IF line_contents[from] = Marker THEN from - 1
    ELSE Find(line_contents, from + 1)

\* Lines 60-63 of E (90-93 of build.py): one entry per line that holds the marker.
RECURSIVE ScanLines(_, _, _)
ScanLines(filename, file_contents, line_idx) ==
    IF line_idx >= Len(file_contents) THEN << >>
    ELSE LET col == Find(file_contents[line_idx + 1], 1)
         IN  (IF col /= 0 - 1
              THEN << [ filename |-> filename, line |-> line_idx, col |-> col ] >>
              ELSE << >>)
             \o ScanLines(filename, file_contents, line_idx + 1)

\* The occurrences of the marker in a file.
RECURSIVE CountMarkers(_)
CountMarkers(file_contents) ==
    IF file_contents = << >> THEN 0
    ELSE Cardinality({ k \in DOMAIN Head(file_contents) : Head(file_contents)[k] = Marker })
         + CountMarkers(Tail(file_contents))

\* Lines 12-33 of E (29-36 of build.py): pkg-config is run and waited for; anything
\* on its stderr aborts the script.
M_Start ==
    \E name \in { "E", "build" }, pkg_stderr \in BOOLEAN, listing \in SrcListings :
        /\ CanStart
        /\ script' = name
        /\ name = "E" => \E release \in ReleaseEnv : isReleaseBuild(release) \in BOOLEAN
        /\ procs' = << Proc("pkg-config", << >>, IF pkg_stderr THEN "exit1" ELSE "exit0") >>
        /\ IF pkg_stderr
           THEN /\ Exit("nonzero", << Msg("pkg_config_stderr", "", 0) >>)
                /\ UNCHANGED << src_filepaths, j >>
           ELSE /\ pc' = "M_scan" /\ src_filepaths' = listing /\ j' = 1
                /\ UNCHANGED << exit_status, report >>
        /\ UNCHANGED << genVars, mainVars, plugins_src, dirB, dirC, dirD, argv, lib_names,
                        lib_versions, i, a_compilation_failed >>

\* The lines printed for the entries of nocompile_list (lines 65-70 of E).
RECURSIVE NocompileLines(_)
NocompileLines(list) ==
    IF list = << >> THEN << >>
    ELSE << LocMsg("nocompile", Head(list).filename, Head(list).line, Head(list).col) >>
         \o NocompileLines(Tail(list))

\* Lines 53-70 of E (83-100 of build.py), one file of the scan; after the last
\* file the script exits if the list is not empty.
M_Scan ==
    /\ pc = "M_scan"
    /\ \E file_contents \in FileContents :
         LET filename == src_filepaths[j]
             list == nocompile_list \o ScanLines(filename, file_contents, 0)
         IN  /\ nocompile_list' = list
             /\ scanned' = Append(scanned, [ filename |-> filename,
                                             markers |-> CountMarkers(file_contents) ])
             /\ IF j < Len(src_filepaths)
                THEN j' = j + 1 /\ UNCHANGED << pc, exit_status, report >>
                ELSE IF list /= << >>
                THEN Exit("nonzero", NocompileLines(list)) /\ UNCHANGED j
                ELSE pc' = "M_build" /\ UNCHANGED << j, exit_status, report >>
    /\ UNCHANGED << genVars, dirE, dirBuild, plugins_src, dirB, dirC, dirD, script, argv,
                    lib_names, lib_versions, i, src_filepaths, procs, a_compilation_failed >>

\* The compilers started: glslc per shader of src/, g++ per other file of src/ and
\* per library source (lines 87-151 of E, 122-186 of build.py).
RECURSIVE MainUnits(_)
MainUnits(files) ==
    IF files = << >> THEN << >>
    ELSE << Proc(IF IsShader(Head(files)) THEN "glslc" ELSE "g++",
                 << "src", "/" >> \o Head(files), "running") >>
         \o MainUnits(Tail(files))
LibUnits == [ k \in DOMAIN LibSources |-> Proc("g++", LibSources[k], "running") ]

\* Shaders are started first, then the C++ files.
ShadersFirst(units) ==
    SelectSeq(units, LAMBDA u : u.tool = "glslc") \o SelectSeq(units, LAMBDA u : u.tool = "g++")

\* Lines 73-151 of E: the build directories are made (os.mkdir fails when they are
\* there already) and every compiler is started.  Lines 106-186 of build.py: the
\* whole of build/ is removed first.
M_Build ==
    /\ pc = "M_build"
    /\ IF script = "E" /\ dirE.exists
       THEN \* os.mkdir raises FileExistsError
            /\ Exit("nonzero", << Msg("FileExistsError", "", 0) >>)
            /\ UNCHANGED << dirA, dirB, dirC, dirD, dirE, dirBuild, procs, j >>
       ELSE /\ IF script = "E"
               THEN /\ dirE' = EmptyDir
                    /\ UNCHANGED << dirA, dirB, dirC, dirD, dirBuild >>
               ELSE /\ dirBuild' = EmptyDir
                    /\ dirA' = NoHeaders
                    /\ dirB' = NoDir
                    /\ dirC' = [ exists |-> FALSE, files |-> NoSubdirs ]
                    /\ dirD' = NoDir
                    /\ dirE' = NoDir
            /\ procs' = procs \o ShadersFirst(MainUnits(src_filepaths)) \o LibUnits
            /\ j' = 2
            /\ pc' = "M_join"
            /\ UNCHANGED << exit_status, report >>
    /\ UNCHANGED << plugin_infos, nocompile_list, scanned, plugins_src, script, argv,
                    lib_names, lib_versions, i, src_filepaths, a_compilation_failed >>

\* The output file of a compiler of the main program, under the build directory:
\* shaders/<file>.spv (build.py: <file>.spv) or intermediate_objects/<path with _>.o
MainOutput(proc) ==
    IF proc.tool = "glslc"
    THEN (IF script = "E" THEN << "shaders", "/" >> ELSE << >>)
         \o SubSeq(proc.target, 3, Len(proc.target)) \o << ".spv" >>
    ELSE << "intermediate_objects", "/" >> \o ObjectFilename(proc.target)

\* A compiler of the main program ends; on success its output is in the build
\* directory, if that is still there.
MainCompilerExit ==
    \E k \in DOMAIN procs, returncode \in { 0, 1 } :
        /\ script \in { "E", "build" }
        /\ procs[k].state = "running"
        /\ procs' = [ procs EXCEPT ![k].state = IF returncode = 0 THEN "exit0" ELSE "exit1" ]
        /\ IF returncode = 0 /\ script = "E" /\ dirE.exists
           THEN dirE' = [ dirE EXCEPT !.files = @ \cup { MainOutput(procs[k]) } ]
                /\ UNCHANGED dirBuild
           ELSE IF returncode = 0 /\ script = "build" /\ dirBuild.exists
           THEN dirBuild' = [ dirBuild EXCEPT !.files = @ \cup { MainOutput(procs[k]) } ]
                /\ UNCHANGED dirE
           ELSE UNCHANGED << dirE, dirBuild >>
        /\ UNCHANGED << genVars, nocompile_list, scanned, plugins_src, dirB, dirC, dirD,
                        script, pc, argv, lib_names, lib_versions, i, src_filepaths, j,
                        a_compilation_failed, exit_status, report >>

\* Lines 153-156 of E (188-191 of build.py), one iteration of the join loop.
M_Join ==
    /\ pc = "M_join"
    /\ j <= Len(procs)
    /\ procs[j].state /= "running"
    /\ a_compilation_failed' = (a_compilation_failed \/ procs[j].state = "exit1")
    /\ j' = j + 1
    /\ UNCHANGED << genVars, mainVars, plugins_src, dirB, dirC, dirD, script, pc, argv,
                    lib_names, lib_versions, i, src_filepaths, procs, exit_status, report >>

\* Lines 158-178 of E (193-213 of build.py): after the join loop, exit if a
\* compilation failed; else run the linker, wait for it and check its status.
M_Link ==
    /\ pc = "M_join"
    /\ j > Len(procs)
    /\ IF a_compilation_failed
       THEN /\ Exit("nonzero", << Msg("a_compilation_failed", "", 0) >>)
            /\ UNCHANGED << procs, dirE, dirBuild >>
       ELSE \E returncode \in { 0, 1 } :
            /\ procs' = Append(procs, Proc("link", << >>,
                                           IF returncode = 0 THEN "exit0" ELSE "exit1"))
            /\ IF returncode /= 0
               THEN /\ Exit("nonzero", << Msg("link_failed", "", 0) >>)
                    /\ UNCHANGED << dirE, dirBuild >>
               ELSE /\ Exit("zero", << >>)
                    /\ IF script = "E"
                       THEN dirE' = [ dirE EXCEPT !.files = @ \cup { << "angame" >> } ]
                            /\ UNCHANGED dirBuild
                       ELSE dirBuild' = [ dirBuild EXCEPT !.files = @ \cup { << "test" >> } ]
                            /\ UNCHANGED dirE
    /\ UNCHANGED << genVars, nocompile_list, scanned, plugins_src, dirB, dirC, dirD, script,
                    argv, lib_names, lib_versions, i, src_filepaths, j, a_compilation_failed >>

----------------------------------------------------------------------------
(* Specifications *)

AllSharedObjects == { ObjectFilename(f) : f \in SharedSrcFiles }
\* build/C_compilePluginSources as a full compile of every plugin leaves it.
AllCompiled ==
    [ exists |-> TRUE,
      files |-> [ n \in AllNames |->
                    IF n \in plugins_src
                    THEN [ exists |-> TRUE,
                           files |-> { ObjectFilename(PluginSrcPath(n, f)) : f \in PluginSrcFiles } ]
                    ELSE NoDir ] ]

NoRun == [ files |-> {}, exit_status |-> "none", script |-> "none" ]

InitProcess ==
    /\ plugin_infos = << >>
    /\ nocompile_list = << >>
    /\ scanned = << >>
    /\ script = "none"
    /\ pc = "idle"
    /\ argv = NoArgv
    /\ lib_names = << >>
    /\ lib_versions = << >>
    /\ i = 1
    /\ src_filepaths = << >>
    /\ j = 0
    /\ procs = << >>
    /\ a_compilation_failed = FALSE
    /\ exit_status = "none"
    /\ report = << >>

\* The link stage run again and again over what the compile stages left.
InitLink ==
    /\ plugins_src \in SUBSET AllNames
    /\ dirB \in { NoDir, [ exists |-> TRUE, files |-> AllSharedObjects ] }
    /\ dirC \in { [ exists |-> FALSE, files |-> NoSubdirs ], AllCompiled }
    /\ dirD = NoDir
    /\ dirA = NoHeaders
    /\ dirE = NoDir
    /\ dirBuild = NoDir
    /\ before = NoRun
    /\ InitProcess

NextLink ==
    \/ Launch /\ before' = [ files |-> dirD.files, exit_status |-> exit_status,
                              script |-> script ]
    \/ D_Start /\ UNCHANGED before
    \/ D_Link /\ UNCHANGED before

SpecLink == InitLink /\ [][NextLink]_vars

\* Compile requests and link requests: in one behaviour either script is run
\* again and again.
NextRequests ==
    \/ Launch /\ UNCHANGED before
    \/ script \in { "none", "C" } /\ C_Start /\ UNCHANGED before
    \/ C_Lib /\ UNCHANGED before
    \/ C_File /\ UNCHANGED before
    \/ script \in { "none", "D" } /\ D_Start /\ UNCHANGED before
    \/ D_Link /\ UNCHANGED before

SpecRequests == InitLink /\ [][NextRequests]_vars

\* The compile stages: in one behaviour either compile script is run again and
\* again.
InitCompile ==
    /\ plugins_src \in SUBSET AllNames
    /\ dirB = NoDir
    /\ dirC = [ exists |-> FALSE, files |-> NoSubdirs ]
    /\ dirD = NoDir
    /\ dirA = NoHeaders
    /\ dirE = NoDir
    /\ dirBuild = NoDir
    /\ before = NoRun
    /\ InitProcess

NextCompile ==
    \/ Launch /\ UNCHANGED before
    \/ script \in { "none", "B" } /\ B_Start /\ UNCHANGED before
    \/ B_Lib /\ UNCHANGED before
    \/ B_File /\ UNCHANGED before
    \/ CompilerExit /\ UNCHANGED before
    \/ B_Join /\ UNCHANGED before
    \/ B_End /\ UNCHANGED before
    \/ script \in { "none", "C" } /\ C_Start /\ UNCHANGED before
    \/ C_Lib /\ UNCHANGED before
    \/ C_File /\ UNCHANGED before

SpecCompile == InitCompile /\ [][NextCompile]_vars

\* Header generation, run again and again.
NextGen ==
    \/ Launch /\ UNCHANGED before
    \/ A_Start /\ UNCHANGED before
    \/ A_Lib /\ UNCHANGED before
    \/ A_Infos /\ UNCHANGED before
    \/ A_Ids /\ UNCHANGED before

SpecGen == InitCompile /\ [][NextGen]_vars

\* The main program built again and again, by E or by build.py.
NextMain ==
    \/ Launch /\ UNCHANGED before
    \/ M_Start /\ UNCHANGED before
    \/ M_Scan /\ UNCHANGED before
    \/ M_Build /\ UNCHANGED before
    \/ MainCompilerExit /\ UNCHANGED before
    \/ M_Join /\ UNCHANGED before
    \/ M_Link /\ UNCHANGED before

InitMain == InitCompile /\ plugins_src = AllNames

SpecMain == InitMain /\ [][NextMain]_vars

\* A staged build: header generation, then per-plugin compiles.
NextStaged ==
    \/ Launch /\ UNCHANGED before
    \/ script = "none" /\ A_Start /\ UNCHANGED before
    \/ A_Lib /\ UNCHANGED before
    \/ A_Infos /\ UNCHANGED before
    \/ A_Ids /\ UNCHANGED before
    \/ script \in { "none", "A" } /\ C_Start /\ UNCHANGED before
    \/ C_Lib /\ UNCHANGED before
    \/ C_File /\ UNCHANGED before

SpecStaged == InitCompile /\ [][NextStaged]_vars

\* A rebuild over a full compile: one per-plugin compile, then one link request.
InitRebuild ==
    /\ InitLink
    /\ dirB.exists
    /\ dirC = AllCompiled

NextRebuild ==
    \/ Launch /\ before' = [ files |-> dirD.files, exit_status |-> exit_status,
                              script |-> script ]
    \/ script = "none" /\ C_Start /\ UNCHANGED before
    \/ C_Lib /\ UNCHANGED before
    \/ C_File /\ UNCHANGED before
    \/ script = "C" /\ D_Start /\ UNCHANGED before
    \/ D_Link /\ UNCHANGED before

SpecRebuild == InitRebuild /\ [][NextRebuild]_vars

\* One run of one stage: the shared compile, the per-plugin compile, the link or
\* the main-program build, over two plugins fully compiled.
InitStages ==
    /\ InitRebuild
    /\ plugins_src = { "audio", "fluid" }

NextStages ==
    \/ Launch /\ UNCHANGED before
    \/ script = "none" /\ B_Start /\ UNCHANGED before
    \/ B_Lib /\ UNCHANGED before
    \/ B_File /\ UNCHANGED before
    \/ script = "B" /\ CompilerExit /\ UNCHANGED before
    \/ B_Join /\ UNCHANGED before
    \/ B_End /\ UNCHANGED before
    \/ script = "none" /\ C_Start /\ UNCHANGED before
    \/ C_Lib /\ UNCHANGED before
    \/ C_File /\ UNCHANGED before
    \/ script = "none" /\ D_Start /\ UNCHANGED before
    \/ D_Link /\ UNCHANGED before
    \/ script = "none" /\ M_Start /\ UNCHANGED before
    \/ M_Scan /\ UNCHANGED before
    \/ M_Build /\ UNCHANGED before
    \/ MainCompilerExit /\ UNCHANGED before
    \/ M_Join /\ UNCHANGED before
    \/ M_Link /\ UNCHANGED before

SpecStages == InitStages /\ [][NextStages]_vars

----------------------------------------------------------------------------
(* Claims about the link stage (SpecLink) *)

Finished(name) == pc = "idle" /\ script = name
LinkRequest(p, v) == [ names |-> << p >>, versions |-> << v >> ]

\* C1: linking one plugin in two successive link runs, with version 0 and then
\* with version 1, leaves both <plugin>.so.0 and <plugin>.so.1 in the link
\* directory once the second run has succeeded.
C1_BothVersionsPresent ==
    \A p \in AllNames :
        ( /\ Finished("D") /\ exit_status = "zero" /\ argv = LinkRequest(p, 1)
          /\ before.script = "D" /\ before.exit_status = "zero"
          /\ << p, 0 >> \in before.files )
        => { << p, 0 >>, << p, 1 >> } \subseteq dirD.files

\* The plugins a link run is about to relink.
Requested == IF argv = NoArgv THEN plugins_src ELSE Range(argv.names)

\* C2: the cleanup of a link run that relinks the plugins S removes no artifact
\* of a plugin outside S: what was there before the run is still there after it.
C2_CleanupScoped ==
    ( script = "D" /\ pc \in { "D_link", "idle" } )
    => \A art \in before.files : art[1] \notin Requested => art \in dirD.files

LinkFailedFor(p, v) ==
    /\ Finished("D")
    /\ procs /= << >>
    /\ procs[Len(procs)] = Proc("link", << p, v >>, "exit1")

\* The artifacts this run linked before the failure.
LinkedByThisRun ==
    { procs[k].target : k \in { n \in DOMAIN procs : procs[n].state = "exit0" } }

\* C3: when the linker exits nonzero for plugin p the run fails naming p's
\* artifact, and every artifact of another plugin, linked by this run or by an
\* earlier one, is still in the link directory.
C3_FailedLinkKeepsOthers ==
    \A p \in AllNames, v \in Versions :
        LinkFailedFor(p, v)
        => /\ exit_status = "nonzero"
           /\ InSeq(Msg("link_failed", p, v), report)
           /\ \A art \in before.files \cup LinkedByThisRun :
                art[1] /= p => art \in dirD.files

\* The run ended in argument validation: an unknown name, an odd-length
\* argument list or a negative version.
RejectedInValidation ==
    \E k \in DOMAIN report : report[k].kind \in { "AssertionError", "no_plugin" }

\* C19: a link request rejected in argument validation leaves the link directory
\* as it was before the run: no artifact that was there is deleted.
C19_RejectedRequestKeepsOutput ==
    ( Finished("D") /\ RejectedInValidation ) => dirD.files = before.files

----------------------------------------------------------------------------
(* Claims about compile and link requests (SpecRequests) *)

UnknownRequested == Range(argv.names) \ plugins_src
NamedAsNoPlugin(n) == \E k \in DOMAIN report : report[k] = Msg("no_plugin", n, 0)

\* A link request is well formed when every name has its version and no version
\* is negative; a compile request always is.
WellFormedRequest ==
    /\ Len(argv.versions) = Len(argv.names) \/ script = "C"
    /\ \A k \in DOMAIN argv.versions : argv.versions[k] >= 0

\* C4 as stated: a compile or link request naming a name that is no plugin ends
\* with a nonzero status, has started no subprocess, and its error output
\* names every requested name that is no plugin.
C4_UnknownPluginRejected ==
    ( (Finished("C") \/ Finished("D")) /\ UnknownRequested /= {} )
    => /\ exit_status = "nonzero"
       /\ procs = << >>
       /\ \A n \in UnknownRequested : NamedAsNoPlugin(n)

\* C4 (amended): a compile or link request naming a name that is no plugin ends
\* with a nonzero status and has started no subprocess; when the request is well
\* formed its error output names every requested name that is no plugin.
C4_UnknownPluginRejectedWellFormed ==
    ( (Finished("C") \/ Finished("D")) /\ UnknownRequested /= {} )
    => /\ exit_status = "nonzero"
       /\ procs = << >>
       /\ WellFormedRequest => \A n \in UnknownRequested : NamedAsNoPlugin(n)

\* A well-formed link request with two names that are no plugins has been rejected.
C4_Witness ==
    /\ Finished("D")
    /\ WellFormedRequest
    /\ Cardinality(UnknownRequested) = 2
    /\ exit_status = "nonzero"

\* The link run ended because a linker failed or the objects were not there.
LinkCouldNotRun ==
    \E k \in DOMAIN report : report[k].kind \in { "link_failed", "FileNotFoundError" }
\* The plugins selected with no version given: all of them when there are no
\* arguments, else the last name of an odd-length argument list.
Unversioned ==
    IF argv = NoArgv THEN plugins_src
    ELSE IF Len(argv.names) = Len(argv.versions) + 1 THEN { argv.names[Len(argv.names)] }
    ELSE {}

\* C14 as stated: every plugin selected for linking with no version given, by a
\* request with no arguments or by a name without a version, has its artifact
\* with suffix 0 when the link run has ended without a linker or object failure.
C14_OmittedVersionIsZero ==
    ( Finished("D") /\ ~ LinkCouldNotRun )
    => \A p \in Unversioned \cap plugins_src : << p, 0 >> \in dirD.files

\* C14 (amended): a link request with no arguments links every plugin with
\* version 0: every linker it starts writes <plugin>.so.0, and when the run ends
\* with status zero the link directory holds exactly <plugin>.so.0 of every plugin.
C14_NoArgumentsLinksVersionZero ==
    ( script = "D" /\ pc \in { "D_link", "idle" } /\ argv = NoArgv )
    => /\ \A k \in DOMAIN procs : procs[k].target[2] = 0
       /\ ( pc = "idle" /\ exit_status = "zero" )
          => dirD.files = { << p, 0 >> : p \in plugins_src }

\* A link request with no arguments over two plugins has succeeded.
C14_Witness ==
    /\ Finished("D") /\ argv = NoArgv /\ exit_status = "zero"
    /\ Cardinality(plugins_src) = 2
    /\ Len(procs) = 2

----------------------------------------------------------------------------
(* Claims about the compile stages (SpecCompile) *)

\* The units whose compiler exited nonzero, and the units the report names.
FailedUnits == { procs[k].target : k \in { n \in DOMAIN procs : procs[n].state = "exit1" } }
ReportedUnits ==
    { report[k].path : k \in { n \in DOMAIN report : report[n].kind = "compile_failed" } }
Running == { k \in DOMAIN procs : procs[k].state = "running" }

\* The stage has ended reporting that a compilation failed.
CompileFailureReported ==
    \E k \in DOMAIN report : report[k].kind \in { "a_compilation_failed", "compile_failed" }

\* C5: when the compilers of a non-empty set F of units of one compile stage exit
\* nonzero, the failure report of the stage names exactly the units of F.
C5_ReportNamesFailedUnits ==
    ( (Finished("B") \/ Finished("C")) /\ CompileFailureReported /\ Running = {} )
    => ReportedUnits = FailedUnits

\* C6: a compile stage that has started a compiler does not end in failure while
\* a compiler it started still runs, and every unit of the source list it is
\* working through has been attempted when it ends.
C6_FailureWaitsForAll ==
    ( (Finished("B") \/ Finished("C")) /\ exit_status = "nonzero" /\ procs /= << >> )
    => /\ Running = {}
       /\ \A k \in DOMAIN src_filepaths :
            \E n \in DOMAIN procs :
                procs[n].target = IF script = "C"
                                  THEN PluginSrcPath(lib_names[i], src_filepaths[k])
                                  ELSE src_filepaths[k]

\* C16: a descriptor without plugin_source_files or without other_source_files
\* is accepted by the compile stages as having no such sources: no stage run
\* ends on the missing key.
C16_SourceListsOptional ==
    ( Finished("B") \/ Finished("C") )
    => \A k \in DOMAIN report : report[k].kind /= "KeyError"

\* The shared compile is at its second plugin, whose descriptor lists one file,
\* and has started two compilers: one for each of two descriptors.
TwoDescriptorsOneFileEach ==
    script = "B" /\ i = 2 /\ Len(src_filepaths) = 1 /\ Len(procs) = 2

\* C18: in one run of the shared compile each source path is compiled once, even
\* when several descriptors list it, so no two compilers of the run write the
\* same object file; stated for the compilers started for two descriptors.
C18_SharedSourceCompiledOnce ==
    TwoDescriptorsOneFileEach
    => /\ procs[1].target /= procs[2].target
       /\ ObjectFilename(procs[1].target) /= ObjectFilename(procs[2].target)

----------------------------------------------------------------------------
(* Claims about header generation (SpecGen) *)

\* The names of a set, ascending.
Ascending(S) == SelectSeq(NameOrder, LAMBDA n : n \in S)
IdsHeader == dirA.plugin_ids_hpp

\* C7: the id enumeration gives each plugin the index of its name in the
\* ascending order of the plugin names, so the ids are 0..|N|-1 without repeats;
\* COUNT is |N|; the table depends on the set of names alone, not on the order
\* the directory was listed in.
C7_IdsBySortedName ==
    IdsHeader.state = "complete"
    => /\ Len(IdsHeader.content.entries) = Cardinality(plugins_src)
       /\ \A k \in DOMAIN IdsHeader.content.entries :
            /\ IdsHeader.content.entries[k].lib_name = Ascending(plugins_src)[k]
            /\ IdsHeader.content.entries[k].value = k - 1
       /\ IdsHeader.content.count = Cardinality(plugins_src)

\* A generation run over three plugins has written the id table.
C7_Witness ==
    /\ Finished("A") /\ exit_status = "zero"
    /\ IdsHeader.state = "complete"
    /\ Cardinality(plugins_src) = 3

HasDuplicate(names) == \E a, b \in DOMAIN names : a /= b /\ names[a] = names[b]

\* C8: a generation run in which a descriptor has two procedures of one name
\* ends in failure, and no header of that plugin is left.
C8_DuplicateProcedureRejected ==
    \A k \in DOMAIN plugin_infos :
        ( Finished("A") /\ HasDuplicate(plugin_infos[k].proc_names) )
        => /\ exit_status = "nonzero"
           /\ dirA.plugin[plugin_infos[k].lib_name].state = "absent"

InfosHeader == dirA.plugin_infos_hpp
\* The generation run has written plugin_infos.hpp and its plugin_infos are at hand.
RegistryWritten ==
    script = "A" /\ pc \in { "A_ids", "idle" } /\ InfosHeader.state = "complete"

\* C11: in plugin_infos.hpp, for every plugin p of the run, PROC_COUNT_, PROC_INFOS_,
\* WATCH_FILEPATH_COUNT_ and WATCH_FILEPATHS_ of p are defined under p's own name
\* (so no identifier is defined twice), and the entry of PLUGIN_RELOAD_INFOS
\* at p's id refers to p's tables and records p's name.
C11_RegistryNamedPerPlugin ==
    RegistryWritten
    => \A k \in DOMAIN plugin_infos :
         LET p == plugin_infos[k].lib_name
             c == InfosHeader.content
         IN  /\ c.proc_tables[k].count_name = upper(p)
             /\ c.proc_tables[k].infos_name = upper(p)
             /\ c.watch_tables[k].count_name = upper(p)
             /\ c.watch_tables[k].paths_name = upper(p)
             /\ c.reload_infos[k].proc_count = upper(p)
             /\ c.reload_infos[k].p_proc_infos = upper(p)
             /\ c.reload_infos[k].watch_filepath_count = upper(p)
             /\ c.reload_infos[k].p_watch_filepaths = upper(p)
             /\ c.reload_infos[k].name = p

\* C12: the struct of function pointers of a plugin has one field per procedure
\* of the descriptor, in the order declared (none for no procedures), and the
\* plugin's PROC_INFOS table has one entry per field, in the same order, each
\* pairing the procedure's name with the offset of the field of that name in
\* that plugin's own struct.
C12_ProcTableMatchesStruct ==
    RegistryWritten
    => \A k \in DOMAIN plugin_infos :
         LET p == plugin_infos[k].lib_name
             header == dirA.plugin[p]
             table == InfosHeader.content.proc_tables[k]
         IN  /\ header.state = "complete"
             /\ header.content.fields = plugin_infos[k].proc_names
             /\ Len(table.entries) = Len(header.content.fields)
             /\ table.count_value = Len(header.content.fields)
             /\ \A n \in DOMAIN table.entries :
                  /\ table.entries[n].proc_name = header.content.fields[n]
                  /\ table.entries[n].field = header.content.fields[n]
                  /\ table.entries[n].struct = << p, header.content.struct_name >>

\* A run over two plugins, one with two procedures and one with none, has
\* written the registry.
C12_Witness ==
    /\ RegistryWritten /\ Finished("A") /\ exit_status = "zero"
    /\ Len(plugin_infos) = 2
    /\ Len(plugin_infos[1].proc_names) = 2
    /\ plugin_infos[2].proc_names = << >>

\* The plugins whose descriptor the run rejected.
RejectedDescriptors ==
    { report[k].name : k \in { n \in DOMAIN report : report[n].kind = "KeyError" } }

\* C15: when a plugin's descriptor fails shape validation (no procedures key; a
\* procedure without return, name or args; an arg without type) generation
\* fails, and no header of that plugin, complete or partial, is in the
\* directory of generated headers.
C15_RejectedDescriptorLeavesNoHeader ==
    Finished("A")
    => \A p \in RejectedDescriptors :
         exit_status = "nonzero" /\ dirA.plugin[p].state = "absent"

----------------------------------------------------------------------------
(* Claims about the staged build (SpecStaged) *)

\* The plugin a compiler of stage C works for: plugins_src/<lib_name>/<file>.
PluginOf(proc) == proc.target[5]

\* C13: the per-plugin compile starts no compiler for a plugin whose generated
\* header is absent, written in part, or left by a failed generation run.
C13_CompileAfterGeneration ==
    script = "C"
    => \A k \in DOMAIN procs :
         /\ dirA.plugin[PluginOf(procs[k])].state = "complete"
         /\ dirA.plugin_ids_hpp.state = "complete"

----------------------------------------------------------------------------
(* Claims about a rebuild (SpecRebuild) *)

\* C20: after a full compile and a successful compile of a subset S of the
\* plugins, the objects of the plugins outside S are still there: a link
\* request that follows finds the object directory of every plugin it links.
C20_SubsetCompileKeepsOtherObjects ==
    ( script = "D" /\ before.script = "C" /\ before.exit_status = "zero" )
    => \A k \in DOMAIN report : report[k].kind /= "FileNotFoundError"

----------------------------------------------------------------------------
(* Claims about every stage (SpecStages) *)

\* The compilers, shader compilers and linkers the run started.
BuildTools == { k \in DOMAIN procs : procs[k].tool /= "pkg-config" }
StageScripts == { "B", "C", "D", "E", "build" }

\* C17: a stage run ends with status zero only if every compiler, shader
\* compiler and linker it started exited zero.  A nonzero exit is not retried:
\* the compile and link scripts, which run their tools one at a time, start
\* nothing after a tool that failed, and the main-program build starts its
\* linker only when every compiler exited zero.
C17_ZeroOnlyIfAllToolsZero ==
    script \in StageScripts
    => /\ ( pc = "idle" /\ exit_status = "zero" )
          => \A k \in BuildTools : procs[k].state = "exit0"
       /\ script \in { "C", "D" }
          => \A k \in BuildTools : procs[k].state = "exit1" => k = Len(procs)
       /\ \A k \in BuildTools :
            ( script \in { "E", "build" } /\ procs[k].tool = "link" )
            => \A n \in BuildTools : n < k => procs[n].state = "exit0"

\* The main-program build of E has ended with a nonzero status after its shader
\* compiler exited nonzero and its other compilers exited zero.
C17_Witness ==
    /\ Finished("E") /\ exit_status = "nonzero"
    /\ \E k \in BuildTools : procs[k].tool = "glslc" /\ procs[k].state = "exit1"
    /\ \A k \in BuildTools : procs[k].tool = "g++" => procs[k].state = "exit0"
    /\ Cardinality(BuildTools) = 3

----------------------------------------------------------------------------
(* Claims about the main-program build (SpecMain) *)

\* C9: when the marker is in a scanned source file the build ends with a nonzero
\* status before it has started any subprocess.
C9_MarkerAbortsBeforeAnySubprocess ==
    ( (Finished("E") \/ Finished("build")) /\ \E k \in DOMAIN scanned : scanned[k].markers > 0 )
    => exit_status = "nonzero" /\ procs = << >>

EntriesFor(filename) ==
    { k \in DOMAIN nocompile_list : nocompile_list[k].filename = filename }

\* C10: for each scanned file the scan lists as many entries as the file holds
\* occurrences of the marker.
C10_EveryOccurrenceListed ==
    \A k \in DOMAIN scanned :
        Cardinality(EntriesFor(scanned[k].filename)) = scanned[k].markers

====
